---- MODULE Spec2Model ----
(***************************************************************************)
(* bridgebuff client (src/client.py) talking to the ranking service        *)
(* (src/server.py) over one persistent HTTP/1.1 connection.                *)
(*                                                                         *)
(* A byte of the connection is a one-character string; texts are           *)
(* sequences of such bytes.  All modelled texts are ASCII, so the byte     *)
(* length of a text equals its character length and bytes.decode /         *)
(* str.encode are length preserving.                                       *)
(***************************************************************************)
EXTENDS Integers, Sequences, FiniteSets, TLC

(***************************************************************************)
(* Bounds of the model                                                     *)
(***************************************************************************)
\* largest cap n handed to get_top_n_games
MaxN == 2
\* game identifiers are 1..MaxId
MaxId == 2
\* largest number of identifiers on one listing page
MaxPage == 2
\* longest placement sequence drawn for the histogram key
MaxCannons == 3
\* largest number of identifiers handed to an aggregation pass on its own
MaxRecords == 4
\* number of http_get calls made on a stream that runs ahead
MaxCalls == 2

(***************************************************************************)
(* Texts                                                                   *)
(***************************************************************************)
CRLF == <<"\r","\n">>
HEADER_END == <<"\r","\n","\r","\n">>
STATUS_200 == <<"H","T","T","P","/","1",".","1"," ","2","0","0"," ","O","K">>
STATUS_404 == <<"H","T","T","P","/","1",".","1"," ","4","0","4"," ","N","O","T"," ","F","O","U","N","D">>
\* a non-200 status line whose reason phrase holds the characters 200
STATUS_404_ODD == <<"H","T","T","P","/","1",".","1"," ","4","0","4"," ","N","O"," ","G","A","M","E"," ","2","0","0">>
CODE_200 == <<"2","0","0">>
CL_NAME == <<"C","o","n","t","e","n","t","-","L","e","n","g","t","h",":">>
CL_PREFIX == <<"c","o","n","t","e","n","t","-","l","e","n","g","t","h",":">>
NOT_FOUND_BODY == <<"{","\"","e","r","r","o","r","\"",":","\"","G","a","m","e"," ","n","o","t"," ","f","o","u","n","d","\"","}","\n">>
K_GAMES == <<"\"","g","a","m","e","s","\"",":">>
K_NEXT == <<"\"","n","e","x","t","\"",":">>
NEXT_LINK == <<"\"","/","a","p","i","/","r","a","n","k","\"">>
JSON_NULL == <<"n","u","l","l">>
K_STATS == <<"\"","g","a","m","e","_","s","t","a","t","s","\"",":">>
K_AUTH == <<"\"","a","u","t","h","\"",":">>
K_SUNK == <<"\"","s","h","i","p","s","_","s","u","n","k","\"",":">>
K_ESC == <<"\"","s","h","i","p","s","_","e","s","c","a","p","e","d","\"",":">>
K_CANNONS == <<"\"","c","a","n","n","o","n","s","\"",":">>
UNKNOWN_AUTH == <<"U","n","k","n","o","w","n","A","u","t","h">>
UPPER == <<"A","B","C","D","E","F","G","H","I","J","K","L","M","N","O","P","Q","R","S","T","U","V","W","X","Y","Z">>
LOWER == <<"a","b","c","d","e","f","g","h","i","j","k","l","m","n","o","p","q","r","s","t","u","v","w","x","y","z">>
DIGITS == <<"0","1","2","3","4","5","6","7","8","9">>

\* str(x) of a non-negative integer
RECURSIVE ToStr(_)
ToStr(v) ==
  IF v < 10 THEN <<DIGITS[v + 1]>>
  ELSE ToStr(v \div 10) \o <<DIGITS[(v % 10) + 1]>>

IsDigit(c) == \E i \in 1..10 : DIGITS[i] = c
DigitVal(c) == (CHOOSE i \in 1..10 : DIGITS[i] = c) - 1

\* str.lower() of one character
LowerChar(c) ==
  IF \E i \in 1..26 : UPPER[i] = c
  THEN LOWER[CHOOSE i \in 1..26 : UPPER[i] = c]
  ELSE c

LowerText(t) == [i \in 1..Len(t) |-> LowerChar(t[i])]

\* needle (not empty) occurs in hay at position i
OccursAt(hay, needle, i) ==
  /\ hay[i] = needle[1]
  /\ SubSeq(hay, i, i + Len(needle) - 1) = needle

\* needle in hay
Contains(hay, needle) ==
  \E i \in 1..(Len(hay) - Len(needle) + 1) : OccursAt(hay, needle, i)

\* position of the first occurrence of needle in hay, 0 when there is none
Find(hay, needle) ==
  LET hits == {i \in 1..(Len(hay) - Len(needle) + 1) : OccursAt(hay, needle, i)}
  IN IF hits = {} THEN 0 ELSE CHOOSE i \in hits : \A j \in hits : i <= j

StartsWith(t, prefix) ==
  /\ Len(t) >= Len(prefix)
  /\ SubSeq(t, 1, Len(prefix)) = prefix

\* t.split(sep): the sequence of pieces of t between occurrences of sep
RECURSIVE Split(_, _)
Split(t, sep) ==
  LET at == Find(t, sep)
  IN IF at = 0 THEN <<t>>
     ELSE <<SubSeq(t, 1, at - 1)>> \o Split(SubSeq(t, at + Len(sep), Len(t)), sep)

\* t.strip() for the blank character
RECURSIVE Strip(_)
Strip(t) ==
  IF t = <<>> THEN t
  ELSE IF Head(t) = " " THEN Strip(Tail(t))
  ELSE IF t[Len(t)] = " " THEN Strip(SubSeq(t, 1, Len(t) - 1))
  ELSE t

RECURSIVE DecimalValue(_)
DecimalValue(t) ==
  IF t = <<>> THEN 0
  ELSE 10 * DecimalValue(SubSeq(t, 1, Len(t) - 1)) + DigitVal(t[Len(t)])

\* int(text): ok for a non-empty run of decimal digits, ValueError otherwise
\* (signs and underscores are outside the modelled alphabet)
ParseInt(t) ==
  IF t # <<>> /\ \A i \in 1..Len(t) : IsDigit(t[i])
  THEN [ok |-> TRUE, val |-> DecimalValue(t)]
  ELSE [ok |-> FALSE, val |-> 0]

Min(a, b) == IF a < b THEN a ELSE b

RECURSIVE Concat(_)
Concat(ss) == IF ss = <<>> THEN <<>> ELSE Head(ss) \o Concat(Tail(ss))

\* all sequences over S of length at most k
SeqsUpTo(S, k) == UNION {[1..m -> S] : m \in 0..k}

(***************************************************************************)
(* JSON payloads.  A decoded JSON value is a record                        *)
(*   t = "page" : an object with "games" (and "next" unless next="absent") *)
(*   t = "rec"  : an object with "game_stats" (empty unless full)          *)
(*   t = "obj"  : the empty object {}                                      *)
(*   t = "arr"  : the empty array []                                       *)
(* A placement (cannon) entry is [isList, items]: a JSON list of items, or *)
(* the bare number items[1] when isList is FALSE.                          *)
(***************************************************************************)
Doc(t, games, next, full, auth, sunk, esc, placed) ==
  [t |-> t, games |-> games, next |-> next, full |-> full, auth |-> auth,
   ships_sunk |-> sunk, ships_escaped |-> esc, cannons |-> placed]

PageDoc(games, next) == Doc("page", games, next, FALSE, <<>>, 0, 0, <<>>)
RecDoc(auth, sunk, esc, placed) == Doc("rec", <<>>, "absent", TRUE, auth, sunk, esc, placed)
BareRecDoc == Doc("rec", <<>>, "absent", FALSE, <<>>, 0, 0, <<>>)
EmptyObjDoc == Doc("obj", <<>>, "absent", FALSE, <<>>, 0, 0, <<>>)
EmptyArrDoc == Doc("arr", <<>>, "absent", FALSE, <<>>, 0, 0, <<>>)

Pair(r, c) == [isList |-> TRUE, items |-> <<r, c>>]

\* the identifier lists of a page: m identifiers counted up from s, starting
\* again at 1 after MaxId (so a long page repeats identifiers)
PageGames ==
  {[i \in 1..m |-> ((s + i - 2) % MaxId) + 1] : m \in 0..MaxPage, s \in 1..MaxId}

PageDocs ==
  {PageDoc(g, x) : g \in PageGames, x \in {"link", "null", "absent"}}

RecordDocs ==
  { RecDoc(<<"a">>, 1, 2, <<>>),
    RecDoc(<<"a">>, 2, 0, <<Pair(0, 0)>>),
    RecDoc(<<"b", ",", "c">>, 1, 1, <<Pair(0, 0), Pair(1, 1)>>),
    BareRecDoc }

JsonDocs == PageDocs \cup RecordDocs \cup {EmptyObjDoc, EmptyArrDoc}

EncInt(x) == IF x < 0 THEN <<"-">> \o ToStr(0 - x) ELSE ToStr(x)

RECURSIVE EncInts(_)
EncInts(xs) ==
  IF xs = <<>> THEN <<>>
  ELSE IF Len(xs) = 1 THEN EncInt(xs[1])
  ELSE EncInt(xs[1]) \o <<",">> \o EncInts(Tail(xs))

EncCannon(c) ==
  IF c.isList THEN <<"[">> \o EncInts(c.items) \o <<"]">> ELSE EncInt(c.items[1])

RECURSIVE EncCannons(_)
EncCannons(cs) ==
  IF cs = <<>> THEN <<>>
  ELSE IF Len(cs) = 1 THEN EncCannon(cs[1])
  ELSE EncCannon(cs[1]) \o <<",">> \o EncCannons(Tail(cs))

\* the text flask.jsonify produces for a value (a trailing newline included)
Enc(d) ==
  CASE d.t = "page" ->
         <<"{">> \o K_GAMES \o <<"[">> \o EncInts(d.games) \o <<"]">>
         \o (IF d.next = "absent" THEN <<>>
             ELSE <<",">> \o K_NEXT \o (IF d.next = "link" THEN NEXT_LINK ELSE JSON_NULL))
         \o <<"}", "\n">>
    [] d.t = "rec" ->
         <<"{">> \o K_STATS \o <<"{">>
         \o (IF d.full
             THEN K_AUTH \o <<"\"">> \o d.auth \o <<"\"", ",">>
                  \o K_CANNONS \o <<"[">> \o EncCannons(d.cannons) \o <<"]", ",">>
                  \o K_ESC \o EncInt(d.ships_escaped) \o <<",">>
                  \o K_SUNK \o EncInt(d.ships_sunk)
             ELSE <<>>)
         \o <<"}", "}", "\n">>
    [] d.t = "obj" -> <<"{", "}", "\n">>
    [] OTHER -> <<"[", "]", "\n">>

\* json.loads over the texts of JsonDocs: trailing whitespace is optional,
\* every other text (a cut text, the empty text) raises JSONDecodeError
JsonTexts == {[text |-> Enc(d), val |-> d] : d \in JsonDocs}

Matches(e, text) == e.text = text \/ e.text = text \o <<"\n">>

Decode(text) ==
  IF \E e \in JsonTexts : Matches(e, text)
  THEN [ok |-> TRUE, val |-> (CHOOSE e \in JsonTexts : Matches(e, text)).val]
  ELSE [ok |-> FALSE, val |-> EmptyObjDoc]

(***************************************************************************)
(* http_get: the parsing of the received header block                      *)
(***************************************************************************)
\* variant: the header is read in bursts, so response_header takes all the
\* bytes that have arrived once the terminator is among them
HeaderScanBurst(w) == IF Find(w, HEADER_END) = 0 THEN 0 ELSE Len(w)

\* number of bytes the recv(1) loop takes from the stream w before the
\* terminator is in response_header; 0 when w holds no terminator
HeaderScan(w) ==
  LET at == Find(w, HEADER_END)
  IN IF at = 0 THEN 0 ELSE at + Len(HEADER_END) - 1

\* parts[0] and parts[1] of response_header.split(b"\r\n\r\n", 1)
HeaderPart(response_header) ==
  SubSeq(response_header, 1, Find(response_header, HEADER_END) - 1)

BodyAlready(response_header) ==
  SubSeq(response_header, Find(response_header, HEADER_END) + Len(HEADER_END),
         Len(response_header))

\* "200" in first_line
StatusIs200(header_part) == Contains(Split(header_part, CRLF)[1], CODE_200)

\* variant: a value int() rejects counts as a body of one byte
LengthOfLineOne(ln) ==
  LET v == ParseInt(Strip(SubSeq(ln, Find(ln, <<":">>) + 1, Len(ln))))
  IN IF v.ok THEN v.val ELSE 1

\* the value of one Content-Length line: int() of the text after the first
\* colon, 0 when int() raises
LengthOfLine(ln) ==
  LET v == ParseInt(Strip(SubSeq(ln, Find(ln, <<":">>) + 1, Len(ln))))
  IN IF v.ok THEN v.val ELSE 0

\* the scan of lines[1:] for the first content-length line
RECURSIVE ScanLength(_)
ScanLength(lines) ==
  IF lines = <<>> THEN 0
  ELSE IF StartsWith(LowerText(Head(lines)), CL_PREFIX) THEN LengthOfLine(Head(lines))
  ELSE ScanLength(Tail(lines))

ContentLength(header_part) == ScanLength(Tail(Split(header_part, CRLF)))

(***************************************************************************)
(* analysis_top_meta: the placement histogram key                          *)
(***************************************************************************)
\* variant: every entry is counted under its first item
WellFormedAny(cpos) == TRUE

\* not (not isinstance(cpos, list) or len(cpos) < 2)
WellFormed(cpos) == cpos.isList /\ Len(cpos.items) >= 2

\* row_counters after the loop over cannons: a dict row_idx -> count
RECURSIVE RowCounters(_)
RowCounters(cannons) ==
  IF cannons = <<>> THEN [r \in {} |-> 0]
  ELSE LET before == RowCounters(SubSeq(cannons, 1, Len(cannons) - 1))
           cpos == cannons[Len(cannons)]
       IN IF ~WellFormed(cpos) THEN before
          ELSE LET row_idx == cpos.items[1]
               IN [r \in DOMAIN before \cup {row_idx} |->
                     IF r = row_idx
                     THEN (IF r \in DOMAIN before THEN before[r] ELSE 0) + 1
                     ELSE before[r]]

\* row_counts[r] = row_counters.get(r, 0) for r in range(8); index r + 1
RowCounts(cannons) ==
  LET rc == RowCounters(cannons)
  IN [i \in 1..8 |-> IF (i - 1) \in DOMAIN rc THEN rc[i - 1] ELSE 0]

\* the bin a row count goes to
Bin(c) == IF 0 <= c /\ c <= 7 THEN c ELSE 7

\* hist after the first k rows; hist[i] is at index i + 1
RECURSIVE HistAfter(_, _)
HistAfter(row_counts, k) ==
  IF k = 0 THEN [i \in 1..8 |-> 0]
  ELSE LET h == HistAfter(row_counts, k - 1)
       IN [h EXCEPT ![Bin(row_counts[k]) + 1] = @ + 1]

Hist(cannons) == HistAfter(RowCounts(cannons), 8)

\* variant: the digits are joined with a separator
PlacementStrCommas(cannons) ==
  LET hist == Hist(cannons)
  IN Concat([i \in 1..8 |-> (IF i = 1 THEN <<>> ELSE <<",">>) \o ToStr(hist[i])])

\* "".join(str(x) for x in hist)
PlacementStr(cannons) ==
  LET hist == Hist(cannons)
  IN Concat([i \in 1..8 |-> ToStr(hist[i])])

(***************************************************************************)
(* The remote service as the client sees it: for every request it reads,   *)
(* one framed response.                                                    *)
(***************************************************************************)
LengthLine(k) == CL_NAME \o <<" ">> \o ToStr(k)

\* status line, header lines, blank line, body
Response(status_line, header_lines, body_text) ==
  status_line \o CRLF
  \o Concat([i \in 1..Len(header_lines) |-> header_lines[i] \o CRLF])
  \o CRLF \o body_text

\* jsonify(response), 200
ServerOk(d) == Response(STATUS_200, <<LengthLine(Len(Enc(d)))>>, Enc(d))

\* jsonify({"error": "Game not found"}), 404
ServerNotFound ==
  Response(STATUS_404, <<LengthLine(Len(NOT_FOUND_BODY))>>, NOT_FOUND_BODY)

\* a reply: what it is, the value it carries, its bytes and the length of
\* its header block
Reply(kind, d, bytes, body_text) ==
  [kind |-> kind, doc |-> d, bytes |-> bytes, head |-> Len(bytes) - Len(body_text)]
NoReply == Reply("none", EmptyObjDoc, <<>>, <<>>)

\* responses of a peer that does not behave like the service: a non-200
\* status line holding the characters 200, and a 200 without a length
OddStatusReply(d) ==
  Reply("odd_status", d, Response(STATUS_404_ODD, <<LengthLine(Len(Enc(d)))>>, Enc(d)),
        Enc(d))
NoLengthReply == Reply("no_length", EmptyObjDoc, Response(STATUS_200, <<>>, <<>>), <<>>)

PageReplies ==
  {Reply("ok", d, ServerOk(d), Enc(d)) : d \in PageDocs \cup {EmptyObjDoc, EmptyArrDoc}}
  \cup {Reply("not_found", EmptyObjDoc, ServerNotFound, NOT_FOUND_BODY),
        OddStatusReply(PageDoc(<<1>>, "link")), NoLengthReply}

GameReplies ==
  {Reply("ok", d, ServerOk(d), Enc(d)) : d \in RecordDocs}
  \cup {Reply("not_found", EmptyObjDoc, ServerNotFound, NOT_FOUND_BODY)}

Replies(request) == IF request.kind = "rank" THEN PageReplies ELSE GameReplies

\* the places where the peer may stop sending and close: before the first
\* byte, inside the header block, right after it (the header block of a
\* response ends where its body_text begins), one byte short of the end of
\* the body, and after the whole response
CutPoints(reply) ==
  {0, reply.head - 1, reply.head, Len(reply.bytes) - 1, Len(reply.bytes)}

\* the sizes recv(m) may come back with when m bytes could be returned: all
\* of them, or a short read that leaves the last one for another recv
RecvSizes(m) == {m} \cup {k \in {m - 1} : k >= 1}

(***************************************************************************)
(* State                                                                   *)
(***************************************************************************)
VARIABLES
  analysis,        \* main: 1 (Immortals) or 2 (Top Meta)
  n,               \* get_top_n_games: the cap
  pc,              \* position of main / get_top_n_games / analysis_*
  hpc,             \* position of http_get: idle, send, header, body, ret
  path,            \* http_get: the request being made
  wire,            \* bytes sent by the peer and not yet received
  closed,          \* the peer has closed the connection
  pending,         \* requests the peer has not answered yet
  response_header, \* http_get local
  content_length,  \* http_get local
  body,            \* http_get local
  to_read,         \* http_get local
  data,            \* the value http_get returned: [ok, text], None is ~ok
  game_ids,        \* get_top_n_games local, then main's game_ids
  start,           \* get_top_n_games local
  idx,             \* analysis_*: number of identifiers processed
  buckets,         \* gas_data / placement_data, in insertion order
  cannons,         \* analysis_top_meta local
  placement_str,   \* analysis_top_meta local
  lines,           \* the CSV rows returned by analysis_*
  lastReq,         \* history: the last request written to the socket
  connFailed,      \* history: a recv has returned b"" (peer closed)
  served,          \* history: the peer's reply to the request of the current call
  pageLog,         \* history: what http_get returned to each page request
  fetchLog,        \* history: the peer's reply to each record request
  infoLog,         \* history: what get_game_info returned to each call
  callLog          \* history: the identifiers get_game_info was called with

httpVars == <<path, response_header, content_length, body, to_read, data>>
netVars == <<wire, closed, pending>>
crawlVars == <<game_ids, start, pageLog>>
fetchVars == <<idx, buckets, cannons, placement_str, lines, fetchLog, infoLog, callLog>>
histVars == <<lastReq, connFailed, served>>
vars == <<analysis, n, pc, hpc, httpVars, netVars, crawlVars, fetchVars, histVars>>

None == [ok |-> FALSE, text |-> <<>>]
Some(text) == [ok |-> TRUE, text |-> text]

\* limit = 50
limit == 50

RankPath(ranking_type, lim, st) ==
  [kind |-> "rank", ranking_type |-> ranking_type, limit |-> lim, start |-> st, game_id |-> 0]
GamePath(game_id) ==
  [kind |-> "game", ranking_type |-> "", limit |-> 0, start |-> 0, game_id |-> game_id]

NoRequest == [path |-> GamePath(0), unread |-> 0, afterFail |-> FALSE]

RankingType == IF analysis = 1 THEN "sunk" ELSE "escaped"

InitCommon ==
  /\ hpc = "idle"
  /\ path = GamePath(0)
  /\ wire = <<>>
  /\ closed = FALSE
  /\ pending = <<>>
  /\ response_header = <<>>
  /\ content_length = 0
  /\ body = <<>>
  /\ to_read = 0
  /\ data = None
  /\ game_ids = <<>>
  /\ start = 1
  /\ idx = 0
  /\ buckets = <<>>
  /\ placement_str = <<>>
  /\ lines = <<>>
  /\ lastReq = NoRequest
  /\ connFailed = FALSE
  /\ served = NoReply
  /\ pageLog = <<>>
  /\ fetchLog = <<>>
  /\ infoLog = <<>>
  /\ callLog = <<>>

\* main after sock.connect: about to call get_top_n_games
Init ==
  /\ analysis \in {1, 2}
  /\ n \in 0..MaxN
  /\ pc = "crawl"
  /\ cannons = <<>>
  /\ InitCommon

(***************************************************************************)
(* http_get                                                                *)
(***************************************************************************)
\* sock.sendall succeeds
HttpSend ==
  /\ hpc = "send"
  /\ hpc' = "header"
  /\ pending' = IF closed THEN pending ELSE Append(pending, path)
  /\ lastReq' = [path |-> path, unread |-> Len(wire), afterFail |-> connFailed]
  /\ served' = NoReply
  /\ response_header' = <<>>
  /\ content_length' = 0
  /\ body' = <<>>
  /\ to_read' = 0
  /\ UNCHANGED <<analysis, n, pc, path, data, wire, closed, connFailed,
                 crawlVars, fetchVars>>

\* sock.sendall raises on the closed connection: return None
HttpSendFail ==
  /\ hpc = "send"
  /\ closed
  /\ hpc' = "ret"
  /\ data' = None
  /\ UNCHANGED <<analysis, n, pc, path, response_header, content_length, body,
                 to_read, netVars, crawlVars, fetchVars, histVars>>

\* the peer answers the oldest unanswered request: the first k bytes of a
\* reply and then a close, or the whole reply on a connection kept open
ServerRespond ==
  /\ pending # <<>>
  /\ ~closed
  /\ \E reply \in Replies(Head(pending)) :
       \/ /\ wire' = wire \o reply.bytes
          /\ closed' = FALSE
          /\ served' = reply
       \/ \E k \in CutPoints(reply) :
            /\ wire' = wire \o SubSeq(reply.bytes, 1, k)
            /\ closed' = TRUE
            /\ served' = [reply EXCEPT !.kind = "cut", !.bytes = SubSeq(reply.bytes, 1, k)]
  /\ pending' = Tail(pending)
  /\ UNCHANGED <<analysis, n, pc, hpc, httpVars, crawlVars, fetchVars,
                 lastReq, connFailed>>

\* the recv(1) loop finds the header terminator; status line and
\* Content-Length are parsed
HttpReadHeader ==
  /\ hpc = "header"
  /\ HeaderScan(wire) > 0
  /\ LET k == HeaderScan(wire)
         rh == SubSeq(wire, 1, k)
         header_part == HeaderPart(rh)
         body_already == BodyAlready(rh)
         declared == ContentLength(header_part)
     IN /\ response_header' = rh
        /\ wire' = SubSeq(wire, k + 1, Len(wire))
        /\ IF ~StatusIs200(header_part)
           THEN /\ data' = None
                /\ hpc' = "ret"
                /\ UNCHANGED <<content_length, body, to_read>>
           ELSE /\ content_length' = declared
                /\ body' = body_already
                /\ to_read' = declared - Len(body_already)
                /\ hpc' = "body"
                /\ UNCHANGED data
  /\ UNCHANGED <<analysis, n, pc, path, closed, pending, crawlVars, fetchVars,
                 histVars>>

\* recv(1) returns b"" before the terminator was seen: return None
HttpHeaderClosed ==
  /\ hpc = "header"
  /\ HeaderScan(wire) = 0
  /\ closed
  /\ response_header' = wire
  /\ wire' = <<>>
  /\ data' = None
  /\ hpc' = "ret"
  /\ connFailed' = TRUE
  /\ UNCHANGED <<analysis, n, pc, path, content_length, body, to_read, closed,
                 pending, crawlVars, fetchVars, lastReq, served>>

\* one sock.recv(to_read) that returns bytes
HttpRecvBody ==
  /\ hpc = "body"
  /\ to_read > 0
  /\ wire # <<>>
  /\ \E k \in RecvSizes(Min(to_read, Len(wire))) :
       /\ body' = body \o SubSeq(wire, 1, k)
       /\ wire' = SubSeq(wire, k + 1, Len(wire))
       /\ to_read' = to_read - k
  /\ UNCHANGED <<analysis, n, pc, hpc, path, response_header, content_length,
                 data, closed, pending, crawlVars, fetchVars, histVars>>

\* sock.recv(to_read) returns b"": break, then return body.decode(...)
HttpBodyClosed ==
  /\ hpc = "body"
  /\ to_read > 0
  /\ wire = <<>>
  /\ closed
  /\ data' = Some(body)
  /\ hpc' = "ret"
  /\ connFailed' = TRUE
  /\ UNCHANGED <<analysis, n, pc, path, response_header, content_length, body,
                 to_read, netVars, crawlVars, fetchVars, lastReq, served>>

\* the drain loop ends with to_read <= 0: return body.decode(...)
HttpBodyDone ==
  /\ hpc = "body"
  /\ to_read <= 0
  /\ data' = Some(body)
  /\ hpc' = "ret"
  /\ UNCHANGED <<analysis, n, pc, path, response_header, content_length, body,
                 to_read, netVars, crawlVars, fetchVars, histVars>>

\* http_get has returned to its caller: its locals are gone
HttpFrameGone ==
  /\ path' = GamePath(0)
  /\ response_header' = <<>>
  /\ content_length' = 0
  /\ body' = <<>>
  /\ to_read' = 0
  /\ data' = None

(***************************************************************************)
(* get_top_n_games                                                         *)
(***************************************************************************)
\* variant: every identifier of the page is appended
AppendAll(ids, page_games, cap) == ids \o page_games

\* for g in page_games: append while len(game_ids) < n, else break
RECURSIVE AppendCapped(_, _, _)
AppendCapped(ids, page_games, cap) ==
  IF page_games = <<>> THEN ids
  ELSE IF Len(ids) < cap
  THEN AppendCapped(Append(ids, Head(page_games)), Tail(page_games), cap)
  ELSE ids

\* variant: the next marker is not looked at
NextAlways(parsed) == TRUE

\* parsed.get("next") is truthy
NextTruthy(parsed) == parsed.next = "link"

\* variant: an empty page does not end the crawl
PageEmptyNever(page_games) == FALSE

\* not page_games
PageEmpty(page_games) == page_games = <<>>

\* variant: the cursor advances by the number of identifiers on the page
NextStartBySize(st, page_games) == st + Len(page_games)

\* start += limit
NextStart(st, page_games) == st + limit

\* variant: the identifiers of a page are taken last to first
GamesReversed(parsed) == [i \in 1..Len(parsed.games) |-> parsed.games[Len(parsed.games) + 1 - i]]

\* page_games = parsed["games"]
GamesOf(parsed) == parsed.games

\* variant: the loop is entered once more when the list is full
LoopGuardLoose(ids, cap) == Len(ids) <= cap

\* len(game_ids) < n
LoopGuard(ids, cap) == Len(ids) < cap

\* while len(game_ids) < n: build the path and call http_get
CrawlCall ==
  /\ pc = "crawl"
  /\ LoopGuard(game_ids, n)
  /\ path' = RankPath(RankingType, limit, start)
  /\ hpc' = "send"
  /\ pc' = "crawl_wait"
  /\ UNCHANGED <<analysis, n, response_header, content_length, body, to_read,
                 data, netVars, crawlVars, fetchVars, histVars>>

\* the while condition is false: return game_ids
CrawlExit ==
  /\ pc = "crawl"
  /\ ~LoopGuard(game_ids, n)
  /\ pc' = "returned"
  /\ UNCHANGED <<analysis, n, hpc, httpVars, netVars, crawlVars, fetchVars,
                 histVars>>

\* the loop body after http_get returned
CrawlPage ==
  /\ pc = "crawl_wait"
  /\ hpc = "ret"
  /\ hpc' = "idle"
  /\ pageLog' = Append(pageLog, data)
  /\ served' = NoReply
  /\ LET parsed == Decode(data.text)
     IN CASE ~data.ok ->
               pc' = "returned" /\ UNCHANGED <<game_ids, start>>
          [] data.ok /\ ~parsed.ok ->
               pc' = "returned" /\ UNCHANGED <<game_ids, start>>
          \* parsed.get on a JSON array: AttributeError leaves main
          [] data.ok /\ parsed.ok /\ parsed.val.t = "arr" ->
               pc' = "crashed" /\ UNCHANGED <<game_ids, start>>
          [] data.ok /\ parsed.ok /\ parsed.val.t \in {"obj", "rec"} ->
               pc' = "returned" /\ UNCHANGED <<game_ids, start>>
          [] data.ok /\ parsed.ok /\ parsed.val.t = "page" /\ PageEmpty(GamesOf(parsed.val)) ->
               pc' = "returned" /\ UNCHANGED <<game_ids, start>>
          [] OTHER ->
               /\ game_ids' = AppendCapped(game_ids, GamesOf(parsed.val), n)
               /\ IF ~NextTruthy(parsed.val)
                  THEN pc' = "returned" /\ UNCHANGED start
                  ELSE pc' = "crawl" /\ start' = NextStart(start, GamesOf(parsed.val))
  /\ HttpFrameGone
  /\ UNCHANGED <<analysis, n, netVars, fetchVars, lastReq, connFailed>>

\* main: game_ids = get_top_n_games(...), then analysis_* starts its loop;
\* the locals of get_top_n_games are gone
MainAnalysis ==
  /\ pc = "returned"
  /\ pc' = "fetch"
  /\ start' = 1
  /\ pageLog' = <<>>
  /\ UNCHANGED <<analysis, n, hpc, httpVars, netVars, game_ids, fetchVars,
                 histVars>>

(***************************************************************************)
(* get_game_info, analysis_immortals, analysis_top_meta                    *)
(***************************************************************************)
\* get_game_info: [present, val]; present is FALSE for None
GameInfo(d) ==
  IF ~d.ok \/ d.text = <<>> THEN [present |-> FALSE, val |-> EmptyObjDoc]
  ELSE IF ~Decode(d.text).ok THEN [present |-> FALSE, val |-> EmptyObjDoc]
  ELSE [present |-> TRUE, val |-> Decode(d.text).val]

\* variant: no bucket is ever found for a key
HasKeyNever(bs, key) == FALSE

\* auth in gas_data / placement_str in placement_data
HasKey(bs, key) == \E i \in 1..Len(bs) : bs[i].key = key

\* variant: only the empty containers count as falsy
FalsyOnlyEmpty(info) == info.present /\ info.val.t \in {"obj", "arr"}

\* not info: None, {} and [] are falsy
Falsy(info) == ~info.present \/ info.val.t \in {"obj", "arr"}

\* game_stats = info.get("game_stats", {}) and the .get defaults
HasStats(val) == val.t = "rec" /\ val.full
AuthOf(val) == IF HasStats(val) THEN val.auth ELSE UNKNOWN_AUTH
SunkOf(val) == IF HasStats(val) THEN val.ships_sunk ELSE 0
EscapedOf(val) == IF HasStats(val) THEN val.ships_escaped ELSE 0
CannonsOf(val) == IF HasStats(val) THEN val.cannons ELSE <<>>

KeyOf(variant, val) == IF variant = 1 THEN AuthOf(val) ELSE PlacementStr(CannonsOf(val))
MetricOf(variant, val) == IF variant = 1 THEN SunkOf(val) ELSE EscapedOf(val)

\* create the bucket when the key is new, then count += 1 and sum += metric
AddRecord(bs, key, metric) ==
  LET withKey == IF HasKey(bs, key) THEN bs
                 ELSE Append(bs, [key |-> key, count |-> 0, sum |-> 0])
  IN [i \in 1..Len(withKey) |->
        IF withKey[i].key = key
        THEN [withKey[i] EXCEPT !.count = @ + 1, !.sum = @ + metric]
        ELSE withKey[i]]

\* the loop body of analysis_* after get_game_info returned info
Aggregate(info) ==
  IF Falsy(info)
  THEN UNCHANGED <<buckets, cannons, placement_str>>
  ELSE /\ buckets' = AddRecord(buckets, KeyOf(analysis, info.val),
                               MetricOf(analysis, info.val))
       /\ IF analysis = 2
          THEN /\ cannons' = CannonsOf(info.val)
               /\ placement_str' = PlacementStr(CannonsOf(info.val))
          ELSE UNCHANGED <<cannons, placement_str>>

\* what the peer answered to a record request: the kind of the reply, and
\* the record when it was served in full with status 200
Answer(reply) ==
  [kind |-> reply.kind, doc |-> IF reply.kind = "ok" THEN reply.doc ELSE EmptyObjDoc]

\* variant: an identifier whose lookup failed is looked up again
AdvanceOnSuccess(i, info) == IF info.present THEN i + 1 ELSE i

\* for idx, g_id in enumerate(game_ids, 1): the loop moves on, also on continue
Advance(i, info) == i + 1

\* for g_id in game_ids: call get_game_info
FetchCall ==
  /\ pc = "fetch"
  /\ idx < Len(game_ids)
  /\ path' = GamePath(game_ids[idx + 1])
  /\ callLog' = Append(callLog, game_ids[idx + 1])
  /\ hpc' = "send"
  /\ pc' = "fetch_wait"
  /\ UNCHANGED <<analysis, n, response_header, content_length, body, to_read,
                 data, netVars, crawlVars, idx, buckets, cannons, placement_str,
                 lines, fetchLog, infoLog, histVars>>

\* the rest of get_game_info and of the loop body
FetchRecord ==
  /\ pc = "fetch_wait"
  /\ hpc = "ret"
  /\ hpc' = "idle"
  /\ pc' = "fetch"
  /\ idx' = Advance(idx, GameInfo(data))
  /\ fetchLog' = Append(fetchLog, Answer(served))
  /\ served' = NoReply
  /\ infoLog' = Append(infoLog, GameInfo(data))
  /\ Aggregate(GameInfo(data))
  /\ HttpFrameGone
  /\ UNCHANGED <<analysis, n, netVars, crawlVars, lines, callLog, lastReq, connFailed>>

\* variant: an element also goes before the elements it ties with
BeforeOrTied(variant, x, y) ==
  IF variant = 1 THEN x.count >= y.count
  ELSE x.sum * y.count <= y.sum * x.count

\* x goes before y in the sorted result_list
Before(variant, x, y) ==
  IF variant = 1 THEN x.count > y.count
  ELSE x.sum * y.count < y.sum * x.count

\* variant: the list is left in insertion order
InsertLast(variant, sorted, x) == Append(sorted, x)

\* list.sort is stable: x is placed after every element it is not before
InsertSorted(variant, sorted, x) ==
  LET later == {i \in 1..Len(sorted) : Before(variant, x, sorted[i])}
      pos == IF later = {} THEN Len(sorted) + 1
             ELSE CHOOSE i \in later : \A j \in later : i <= j
  IN SubSeq(sorted, 1, pos - 1) \o <<x>> \o SubSeq(sorted, pos, Len(sorted))

RECURSIVE SortBuckets(_, _)
SortBuckets(variant, bs) ==
  IF bs = <<>> THEN <<>>
  ELSE InsertSorted(variant, SortBuckets(variant, SubSeq(bs, 1, Len(bs) - 1)),
                    bs[Len(bs)])

\* auth.replace(",", "")
Clean(auth) == SelectSeq(auth, LAMBDA c : c # ",")

\* f"{s / c:.2f}" (rounding to hundredths; no count of the model reaches a tie)
Fmt2(s, c) ==
  LET h == (200 * s + c) \div (2 * c)
  IN ToStr(h \div 100) \o <<".", DIGITS[((h \div 10) % 10) + 1], DIGITS[(h % 10) + 1]>>

CsvLine(variant, b) ==
  IF variant = 1
  THEN Clean(b.key) \o <<",">> \o ToStr(b.count) \o <<",">> \o Fmt2(b.sum, b.count)
  ELSE b.key \o <<",">> \o Fmt2(b.sum, b.count)

\* result_list sorted, one CSV row for each of its elements
ResultLines(variant, bs) ==
  LET sorted == SortBuckets(variant, bs)
  IN [i \in 1..Len(sorted) |-> CsvLine(variant, sorted[i])]

\* the loop over game_ids is over: sort the buckets and build the CSV rows
Finalize ==
  /\ pc = "fetch"
  /\ idx = Len(game_ids)
  /\ pc' = "done"
  /\ lines' = ResultLines(analysis, buckets)
  /\ UNCHANGED <<analysis, n, hpc, httpVars, netVars, crawlVars, idx, buckets,
                 cannons, placement_str, fetchLog, infoLog, callLog, histVars>>

Next ==
  \/ CrawlCall
  \/ CrawlExit
  \/ CrawlPage
  \/ MainAnalysis
  \/ FetchCall
  \/ FetchRecord
  \/ Finalize
  \/ HttpSend
  \/ HttpSendFail
  \/ ServerRespond
  \/ HttpReadHeader
  \/ HttpHeaderClosed
  \/ HttpRecvBody
  \/ HttpBodyClosed
  \/ HttpBodyDone

Spec == Init /\ [][Next]_vars

(***************************************************************************)
(* get_top_n_games on its own, over a transport whose calls return         *)
(***************************************************************************)
\* what a call of http_get can hand back: None, or the text of any body
TransportResults ==
  {None, Some(<<>>), Some(NOT_FOUND_BODY)}
  \cup {Some(Enc(d)) : d \in PageDocs \cup {EmptyObjDoc, EmptyArrDoc, BareRecDoc}}

\* data = http_get(sock, host, port, path) returns
TransportReturns ==
  /\ pc = "crawl_wait"
  /\ hpc = "send"
  /\ \E result \in TransportResults : data' = result
  /\ hpc' = "ret"
  /\ UNCHANGED <<analysis, n, pc, path, response_header, content_length, body,
                 to_read, netVars, crawlVars, fetchVars, histVars>>

\* the steps of the loop of get_top_n_games
CrawlStep == CrawlCall \/ CrawlExit \/ CrawlPage

CrawlNext == CrawlStep \/ TransportReturns

\* the interpreter keeps running the loop, and every call of http_get returns
SpecCrawl == Init /\ [][CrawlNext]_vars /\ WF_vars(CrawlStep) /\ WF_vars(TransportReturns)

(***************************************************************************)
(* The histogram key of analysis_top_meta on its own                       *)
(***************************************************************************)
\* one placement entry: a pair with a row inside or outside 0..7, a list
\* that is too short, a bare number
CannonEntries ==
  {Pair(r, 0) : r \in {-1, 0, 1, 7, 8}}
  \cup {[isList |-> TRUE, items |-> <<0>>], [isList |-> FALSE, items |-> <<0>>]}

\* k placements in row r
RowFill(r, k) == [i \in 1..k |-> Pair(r, i - 1)]

\* placement sequences with the same count on all 8 rows, and a row of 8
LongPlacements ==
  { [i \in 1..8 |-> Pair(i - 1, 0)],
    [i \in 1..16 |-> Pair((i - 1) % 8, i \div 9)],
    RowFill(0, 8) }

PlacementInputs == SeqsUpTo(CannonEntries, MaxCannons) \cup LongPlacements

MetaInit ==
  /\ analysis = 2
  /\ n = 0
  /\ pc = "meta"
  /\ cannons \in PlacementInputs
  /\ InitCommon

\* the body of the loop of analysis_top_meta from row_counters to placement_str
MetaKey ==
  /\ pc = "meta"
  /\ pc' = "meta_done"
  /\ placement_str' = PlacementStr(cannons)
  /\ UNCHANGED <<analysis, n, hpc, httpVars, netVars, crawlVars, idx, buckets,
                 cannons, lines, fetchLog, infoLog, callLog, histVars>>

MetaNext == MetaKey

SpecMeta == MetaInit /\ [][MetaNext]_vars

(***************************************************************************)
(* One aggregation pass on its own: analysis_* over a list of identifiers, *)
(* get_game_info returning any of its results                              *)
(***************************************************************************)
\* the results of get_game_info: None, an empty object, a record
AggInfos ==
  {GameInfo(None)}
  \cup {[present |-> TRUE, val |-> d] : d \in RecordDocs \cup {EmptyObjDoc}}

AggInit ==
  /\ analysis \in {1, 2}
  /\ n = MaxRecords
  /\ pc = "agg"
  /\ cannons = <<>>
  /\ InitCommon

\* main handed m identifiers to analysis_*
AggStart ==
  /\ pc = "agg"
  /\ \E m \in 0..MaxRecords : game_ids' = [i \in 1..m |-> i]
  /\ pc' = "agg_loop"
  /\ UNCHANGED <<analysis, n, hpc, httpVars, netVars, start, pageLog, fetchVars,
                 histVars>>

\* one iteration of the loop over game_ids
AggRecord ==
  /\ pc = "agg_loop"
  /\ idx < Len(game_ids)
  /\ \E info \in AggInfos :
       /\ idx' = Advance(idx, info)
       /\ infoLog' = Append(infoLog, info)
       /\ Aggregate(info)
  /\ UNCHANGED <<analysis, n, pc, hpc, httpVars, netVars, crawlVars, lines,
                 fetchLog, callLog, histVars>>

\* the loop is over: sort and build the rows
AggFinalize ==
  /\ pc = "agg_loop"
  /\ idx = Len(game_ids)
  /\ pc' = "agg_done"
  /\ lines' = ResultLines(analysis, buckets)
  /\ UNCHANGED <<analysis, n, hpc, httpVars, netVars, crawlVars, idx, buckets,
                 cannons, placement_str, fetchLog, infoLog, callLog, histVars>>

AggNext == AggStart \/ AggRecord \/ AggFinalize

SpecAgg == AggInit /\ [][AggNext]_vars

(***************************************************************************)
(* http_get on a stream that runs ahead: the peer sends the response to    *)
(* the first request and, right behind it, the response to the next one    *)
(***************************************************************************)
\* 200 responses with Content-Length: 0, and with a value int() rejects in
\* front of a body
ZeroLengthReply ==
  Reply("zero_length", EmptyObjDoc, Response(STATUS_200, <<LengthLine(0)>>, <<>>), <<>>)
BadLengthReply ==
  Reply("bad_length", EmptyObjDoc,
        Response(STATUS_200, <<CL_NAME \o <<" ", "x", "1">>>>, Enc(EmptyObjDoc)),
        Enc(EmptyObjDoc))

FrameReplies == PageReplies \cup GameReplies \cup {ZeroLengthReply, BadLengthReply}

\* the response sent ahead of its request
AheadBytes == ServerOk(BareRecDoc)

FrameInit ==
  /\ analysis \in {1, 2}
  /\ n = 0
  /\ pc = "frame"
  /\ cannons = <<>>
  /\ InitCommon

\* a caller enters http_get
FrameCall ==
  /\ pc = "frame"
  /\ idx < MaxCalls
  /\ path' = GamePath(idx + 1)
  /\ hpc' = "send"
  /\ pc' = "frame_wait"
  /\ UNCHANGED <<analysis, n, response_header, content_length, body, to_read,
                 data, netVars, crawlVars, fetchVars, histVars>>

\* the peer answers the first request and sends the next response with it
FrameRespond ==
  /\ pending # <<>>
  /\ idx = 0
  /\ \E reply \in FrameReplies :
       /\ wire' = wire \o reply.bytes \o AheadBytes
       /\ served' = reply
  /\ pending' = Tail(pending)
  /\ UNCHANGED <<analysis, n, pc, hpc, httpVars, closed, crawlVars, fetchVars,
                 lastReq, connFailed>>

\* http_get returns to its caller
FrameReturn ==
  /\ pc = "frame_wait"
  /\ hpc = "ret"
  /\ hpc' = "idle"
  /\ pc' = "frame"
  /\ idx' = idx + 1
  /\ pageLog' = Append(pageLog, data)
  /\ HttpFrameGone
  /\ UNCHANGED <<analysis, n, netVars, game_ids, start, buckets, cannons,
                 placement_str, lines, fetchLog, infoLog, callLog, histVars>>

FrameNext ==
  \/ FrameCall
  \/ HttpSend
  \/ FrameRespond
  \/ HttpReadHeader
  \/ HttpRecvBody
  \/ HttpBodyDone
  \/ FrameReturn

SpecFrame == FrameInit /\ [][FrameNext]_vars

(***************************************************************************)
(* Properties                                                              *)
(***************************************************************************)
\* C1: a successful return of http_get carries a body whose length is the
\* declared content length (a connection closed inside the body is a failure)
C1_NoTruncatedSuccess ==
  (hpc = "ret" /\ data.ok) => Len(data.text) = content_length

\* C2: no request is written while bytes of an earlier response are unread
C2_NoRequestOverUnread == lastReq.unread = 0

\* the status code of a response: the second word of its status line
StatusCodeOf(bytes) == Split(Split(bytes, CRLF)[1], <<" ">>)[2]

\* C3: http_get returns a body only for a response whose status code is 200
C3_StatusCodeDecides ==
  (hpc = "ret" /\ data.ok /\ served.kind # "none")
    => StatusCodeOf(served.bytes) = CODE_200

\* C4: the collected identifiers never outnumber the cap n
C4_Cap == Len(game_ids) <= n

\* a page of 2 identifiers arrived when the cap was 1
C4_Witness ==
  /\ pc = "returned"
  /\ n = 1
  /\ Len(game_ids) = 1
  /\ pageLog # <<>>
  /\ pageLog[1].ok
  /\ Decode(pageLog[1].text).ok
  /\ Len(Decode(pageLog[1].text).val.games) = 2

\* what one page request brought: the number of identifiers of a page that
\* decoded to an object with "games", and whether the crawl goes on after it
PageCount(d) ==
  IF d.ok /\ Decode(d.text).ok /\ Decode(d.text).val.t = "page"
  THEN Len(Decode(d.text).val.games) ELSE 0

PageStops(d) ==
  \/ PageCount(d) = 0
  \/ Decode(d.text).val.next # "link"

\* identifiers on the pages up to and including the first stopping one
RECURSIVE TotalAvailable(_)
TotalAvailable(log) ==
  IF log = <<>> THEN 0
  ELSE IF PageStops(Head(log)) THEN PageCount(Head(log))
  ELSE PageCount(Head(log)) + TotalAvailable(Tail(log))

\* C5: get_top_n_games returns min(n, T) identifiers, T the number of
\* identifiers served before the first stopping condition
C5_ReturnedCount ==
  pc = "returned" => Len(game_ids) = Min(n, TotalAvailable(pageLog))

\* two pages were fetched and the crawl ended below the cap
C5_Witness ==
  /\ pc = "returned"
  /\ Len(pageLog) = 2
  /\ Len(game_ids) = 1
  /\ n = 2

\* http_get has returned a non-empty page without a next marker
LastPageArrived ==
  /\ pc = "crawl_wait"
  /\ hpc = "ret"
  /\ PageCount(data) > 0
  /\ Decode(data.text).val.next \in {"null", "absent"}

RankRequestSent == hpc = "send" /\ hpc' = "header" /\ path.kind = "rank"

\* C6: a non-empty page without a next marker has its identifiers appended
\* up to the cap and ends the crawl: no page request is sent after it
C6_NoNextStops ==
  [][ /\ LastPageArrived =>
           /\ pc' = "returned"
           /\ game_ids' = game_ids \o
                SubSeq(Decode(data.text).val.games, 1,
                       Min(PageCount(data), n - Len(game_ids)))
      /\ pc \notin {"crawl", "crawl_wait"} =>
           /\ ~RankRequestSent
           /\ pc' \notin {"crawl", "crawl_wait"} ]_vars

\* the crawl ended below the cap on a page without a next marker
C6_Witness ==
  /\ pc = "returned"
  /\ Len(game_ids) < n
  /\ pageLog # <<>>
  /\ PageCount(pageLog[Len(pageLog)]) > 0
  /\ Decode(pageLog[Len(pageLog)].text).val.next \in {"null", "absent"}

\* http_get failed, or its text is not an object with a "games" field
FailedPageArrived ==
  /\ pc = "crawl_wait"
  /\ hpc = "ret"
  /\ \/ ~data.ok
     \/ ~Decode(data.text).ok
     \/ Decode(data.text).val.t # "page"

\* C7: a failed page request ends the crawl with the identifiers collected so
\* far, and no error is raised
C7_FailedPageStops ==
  [][FailedPageArrived => (pc' = "returned" /\ game_ids' = game_ids)]_vars

\* every record request so far was answered in full by the service: the
\* record with status 200, or the not-found response
ServiceAnswers ==
  \A i \in 1..Len(fetchLog) : fetchLog[i].kind \in {"ok", "not_found"}

ServedWith(key) ==
  {i \in 1..Len(fetchLog) :
     fetchLog[i].kind = "ok" /\ KeyOf(analysis, fetchLog[i].doc) = key}

RECURSIVE MetricSum(_)
MetricSum(I) ==
  IF I = {} THEN 0
  ELSE LET i == CHOOSE j \in I : TRUE
       IN MetricOf(analysis, fetchLog[i].doc) + MetricSum(I \ {i})

\* C8: a lookup answered with not-found adds to no bucket and the records
\* served for the other identifiers are all counted
C8_NotFoundSkipped ==
  (pc \in {"fetch", "done"} /\ ServiceAnswers) =>
    /\ \A i \in 1..Len(buckets) :
         /\ buckets[i].count = Cardinality(ServedWith(buckets[i].key))
         /\ buckets[i].count >= 1
         /\ buckets[i].sum = MetricSum(ServedWith(buckets[i].key))
    /\ \A i \in 1..Len(fetchLog) :
         fetchLog[i].kind = "ok" => HasKey(buckets, KeyOf(analysis, fetchLog[i].doc))
    /\ pc = "done" => Len(fetchLog) = Len(game_ids)

\* the first lookup was answered not-found, the second one was counted
C8_Witness ==
  /\ pc = "done"
  /\ Len(fetchLog) = 2
  /\ fetchLog[1].kind = "not_found"
  /\ fetchLog[2].kind = "ok"
  /\ Len(buckets) = 1
  /\ buckets[1].count = 1

\* C9: no request is written after a recv has met the closed connection
C9_NoRequestAfterClose == ~lastReq.afterFail

KeyChars(S) ==
  pc = "meta_done" =>
    /\ Len(placement_str) = 8
    /\ \A i \in 1..Len(placement_str) : placement_str[i] \in S

\* C10 as stated: the key has 8 characters, each a digit '0'..'7'
C10_KeyDigits0to7 == KeyChars({"0", "1", "2", "3", "4", "5", "6", "7"})

\* C10 as amended: the key has 8 characters, each a digit '0'..'8'
C10_KeyShape == KeyChars({"0", "1", "2", "3", "4", "5", "6", "7", "8"})

\* one cannon on each of the 8 rows: the key is 08000000
C10_Witness ==
  /\ pc = "meta_done"
  /\ Len(cannons) = 8
  /\ placement_str = <<"0", "8", "0", "0", "0", "0", "0", "0">>

\* the well-formed entries of a placement sequence that name row r
EntriesOfRow(cs, r) ==
  {i \in 1..Len(cs) : cs[i].isList /\ Len(cs[i].items) >= 2 /\ cs[i].items[1] = r}

\* the rows 0..7 whose number of entries, 7 or more counting as 7, is b
RowsInBin(cs, b) ==
  {r \in 0..7 : (IF Cardinality(EntriesOfRow(cs, r)) >= 7 THEN 7
                 ELSE Cardinality(EntriesOfRow(cs, r))) = b}

\* C11: bin b of the histogram holds the number of rows 0..7 whose placement
\* count (7 or more folded into 7, malformed entries and other rows ignored)
\* is b, so the 8 bins sum to 8 and the digits of the key do too
C11_HistSumsTo8 ==
  pc = "meta_done" =>
    LET hist == Hist(cannons)
    IN /\ \A b \in 0..7 : hist[b + 1] = Cardinality(RowsInBin(cannons, b))
       /\ hist[1] + hist[2] + hist[3] + hist[4] + hist[5] + hist[6] + hist[7] + hist[8] = 8
       /\ placement_str = Concat([i \in 1..8 |-> ToStr(hist[i])])

\* eight cannons on row 0: that row folds into bin 7, the others are in bin 0
C11_Witness ==
  /\ pc = "meta_done"
  /\ Cardinality(EntriesOfRow(cannons, 0)) = 8
  /\ placement_str = <<"7", "0", "0", "0", "0", "0", "0", "1">>

\* the calls of get_game_info that gave the loop a record to aggregate
Present ==
  {i \in 1..Len(infoLog) : infoLog[i].present /\ infoLog[i].val.t \notin {"obj", "arr"}}

PresentWith(key) == {i \in Present : KeyOf(analysis, infoLog[i].val) = key}

RECURSIVE MetricTotal(_)
MetricTotal(I) ==
  IF I = {} THEN 0
  ELSE LET i == CHOOSE j \in I : TRUE
       IN MetricOf(analysis, infoLog[i].val) + MetricTotal(I \ {i})

RECURSIVE CountTotal(_)
CountTotal(bs) == IF bs = <<>> THEN 0 ELSE Head(bs).count + CountTotal(Tail(bs))

\* the fields of a CSV row, and the hundredths its last field stands for
Fields(line) == Split(line, <<",">>)
Hundredths(field) == DecimalValue(SelectSeq(field, LAMBDA c : c # "."))

\* the row of a bucket: first field the (sanitized) key, last field the mean
RowOf(b) ==
  {j \in 1..Len(lines) :
     Fields(lines[j])[1] = (IF analysis = 1 THEN Clean(b.key) ELSE b.key)}

\* h hundredths is s / c rounded to 2 decimals
IsMean(h, s, c) == 200 * s - c <= 2 * h * c /\ 2 * h * c <= 200 * s + c

\* C12: the buckets partition the present records by key: counts sum to the
\* number of present records, a bucket's count and sum are those of the
\* records with its key, and its row carries sum / count with count >= 1
C12_OneBucketPerRecord ==
  pc \in {"fetch", "done"} =>
    /\ CountTotal(buckets) = Cardinality(Present)
    /\ \A i, j \in 1..Len(buckets) : buckets[i].key = buckets[j].key => i = j
    /\ \A i \in 1..Len(buckets) :
         /\ buckets[i].count >= 1
         /\ buckets[i].count = Cardinality(PresentWith(buckets[i].key))
         /\ buckets[i].sum = MetricTotal(PresentWith(buckets[i].key))
    /\ \A i \in Present : HasKey(buckets, KeyOf(analysis, infoLog[i].val))
    /\ pc = "done" =>
         /\ Len(infoLog) = Len(game_ids)
         /\ Len(lines) = Len(buckets)
         /\ \A i \in 1..Len(buckets) :
              /\ Cardinality(RowOf(buckets[i])) = 1
              /\ \A j \in RowOf(buckets[i]) :
                   LET f == Fields(lines[j])
                   IN /\ IsMean(Hundredths(f[Len(f)]), buckets[i].sum, buckets[i].count)
                      /\ analysis = 1 => f[2] = ToStr(buckets[i].count)

\* two present records with the same key ended in one bucket with mean 1.50
C12_Witness ==
  /\ pc = "done"
  /\ Cardinality(Present) = 2
  /\ Len(buckets) = 1
  /\ buckets[1].count = 2
  /\ buckets[1].sum = 3
  /\ Len(lines) = 1
  /\ Fields(lines[1])[Len(Fields(lines[1]))] = <<"1", ".", "5", "0">>

\* the bucket a CSV row was built from, by its position in creation order
BucketOfRow(line) ==
  CHOOSE i \in 1..Len(buckets) :
    Fields(line)[1] = (IF analysis = 1 THEN Clean(buckets[i].key) ELSE buckets[i].key)

\* the rows are in the order given by goesFirst, ties in creation order
RowsOrdered(goesFirst(_, _), tied(_, _)) ==
  /\ Len(lines) = Len(buckets)
  /\ \A i \in 1..Len(buckets) : \E j \in 1..Len(lines) : BucketOfRow(lines[j]) = i
  /\ \A j, k \in 1..Len(lines) :
       j < k =>
         LET bj == BucketOfRow(lines[j])
             bk == BucketOfRow(lines[k])
         IN \/ goesFirst(buckets[bj], buckets[bk])
            \/ tied(buckets[bj], buckets[bk]) /\ bj < bk

\* C13: variant A emits its rows by count descending, buckets with equal
\* counts in the order in which they were created
C13_CountDescending ==
  (pc = "agg_done" /\ analysis = 1) =>
    /\ RowsOrdered(LAMBDA x, y : x.count > y.count, LAMBDA x, y : x.count = y.count)
    /\ \A j \in 1..Len(lines) :
         Fields(lines[j])[2] = ToStr(buckets[BucketOfRow(lines[j])].count)

\* the bucket created last has 2 records and comes first; the two buckets
\* with 1 record follow in creation order
C13_Witness ==
  /\ pc = "agg_done"
  /\ analysis = 1
  /\ Len(buckets) = 3
  /\ buckets[1].count = 1
  /\ buckets[2].count = 1
  /\ buckets[3].count = 2
  /\ Len(lines) = 3
  /\ BucketOfRow(lines[1]) = 3
  /\ BucketOfRow(lines[2]) = 1

\* C14: variant B emits its rows by mean of the escaped metric ascending,
\* buckets with equal means in the order in which their keys were first seen
C14_MeanAscending ==
  (pc = "agg_done" /\ analysis = 2) =>
    /\ RowsOrdered(LAMBDA x, y : x.sum * y.count < y.sum * x.count,
                   LAMBDA x, y : x.sum * y.count = y.sum * x.count)
    /\ \A j, k \in 1..Len(lines) :
         j < k => Hundredths(Fields(lines[j])[2]) <= Hundredths(Fields(lines[k])[2])

\* the bucket seen last has the lowest mean and comes first; the two buckets
\* with mean 1.00 (2/2 and 1/1) follow in first-seen order
C14_Witness ==
  /\ pc = "agg_done"
  /\ analysis = 2
  /\ Len(buckets) = 3
  /\ buckets[1].count = 2
  /\ buckets[1].sum = 2
  /\ buckets[2].count = 1
  /\ buckets[2].sum = 1
  /\ buckets[3].sum = 0
  /\ Len(lines) = 3
  /\ BucketOfRow(lines[1]) = 3
  /\ BucketOfRow(lines[2]) = 1

\* http_get is entered / its request is written to the socket
CallStarts == hpc # "send" /\ hpc' = "send"
RequestWritten == hpc = "send" /\ hpc' = "header"

InCrawl == pc \in {"crawl", "crawl_wait", "returned", "crashed"}

\* the lookups made so far are those of the first identifiers of the list,
\* one each and in list order, none of them before the crawl has finished
LookupsInOrder ==
  /\ Len(callLog) <= Len(game_ids)
  /\ callLog = SubSeq(game_ids, 1, Len(callLog))
  /\ Len(callLog) = idx + (IF pc = "fetch_wait" THEN 1 ELSE 0)
  /\ InCrawl => callLog = <<>>
  /\ pc = "done" => callLog = game_ids

\* C15: every identifier of the list is looked up by exactly one http_get
\* call, in list order and after the crawl; a call writes its request at most
\* once, and a failed call is followed by the next identifier (or by the end
\* of the crawl), never by the same request again
C15_OneRequestEach ==
  [][
          /\ LookupsInOrder
          /\ LookupsInOrder'
          /\ CallStarts =>
               /\ hpc = "idle"
               /\ \/ pc = "crawl" /\ path'.kind = "rank"
                  \/ pc = "fetch" /\ path' = GamePath(game_ids[idx + 1])
          /\ RequestWritten =>
               /\ path' = path
               /\ pc = "crawl_wait" => path.kind = "rank"
               /\ pc = "fetch_wait" => path = GamePath(game_ids[idx + 1])
          /\ (hpc = "ret" /\ ~data.ok) =>
               \/ pc = "crawl_wait" /\ pc' = "returned"
               \/ pc = "fetch_wait" /\ pc' = "fetch" /\ idx' = idx + 1
          /\ ~InCrawl => game_ids' = game_ids ]_vars

\* the first lookup failed, the second identifier was then looked up and
\* counted, and the pass ended after these two calls
C15_Witness ==
  /\ pc = "done"
  /\ Len(game_ids) = 2
  /\ game_ids[1] # game_ids[2]
  /\ callLog = game_ids
  /\ ~infoLog[1].present
  /\ infoLog[2].present

\* the bytes the running call has taken from the socket: the header scan's
\* bytes, then the drained part of the body
Consumed ==
  response_header
    \o SubSeq(body, Len(BodyAlready(response_header)) + 1, Len(body))

\* the body the peer sent with the response being read
ServedBody == SubSeq(served.bytes, served.head + 1, Len(served.bytes))

\* the first call is in progress and its response is on the stream, with
\* the next response behind it
FirstCallServed == pc = "frame_wait" /\ idx = 0 /\ served.kind # "none"

\* C16: http_get takes no byte beyond its own response: what it has taken
\* and what is left on the stream are together the stream as sent, the
\* header scan stops with the terminator as its last four bytes and no body
\* byte behind it, at most the declared number of body bytes are drained,
\* and the response that was sent ahead stays whole on the stream
C16_NoOverRead ==
  FirstCallServed =>
    /\ Consumed \o wire = served.bytes \o AheadBytes
    /\ Len(Consumed) <= Len(served.bytes)
    /\ hpc \in {"body", "ret"} =>
         /\ response_header = SubSeq(served.bytes, 1, served.head)
         /\ BodyAlready(response_header) = <<>>
         /\ Len(body) <= content_length
         /\ to_read = content_length - Len(body)

\* the first call returned the whole body of a 200 response and left
\* exactly the response sent ahead on the stream
C16_Witness ==
  /\ FirstCallServed
  /\ hpc = "ret"
  /\ served.kind = "ok"
  /\ data = Some(ServedBody)
  /\ Len(ServedBody) > 1
  /\ wire = AheadBytes

\* C17: a 200 response without a Content-Length line, with a value that is
\* not an integer, or with Content-Length: 0 has declared length 0: the
\* body loop has nothing to read, no byte behind the header is taken from
\* the socket, and the call returns an empty body
C17_NoLengthNoBody ==
  (FirstCallServed /\ served.kind \in {"no_length", "bad_length", "zero_length"}
     /\ hpc \in {"body", "ret"}) =>
    /\ content_length = 0
    /\ to_read <= 0
    /\ body = <<>>
    /\ wire = ServedBody \o AheadBytes
    /\ hpc = "ret" => data = Some(<<>>)

\* the call returned an empty body for a response whose length value is
\* not an integer, and the body the peer sent is still on the stream
C17_Witness ==
  /\ FirstCallServed
  /\ hpc = "ret"
  /\ served.kind = "bad_length"
  /\ data = Some(<<>>)
  /\ ServedBody # <<>>
  /\ wire = ServedBody \o AheadBytes

\* C18: every page request carries limit = 50, and the request made after k
\* page calls have returned carries start = 1 + 50 * k, whatever the pages
\* held
C18_CursorSteps ==
  /\ pc \in {"crawl", "crawl_wait"} => start = 1 + 50 * Len(pageLog)
  /\ pc = "crawl_wait" =>
       path = RankPath(RankingType, 50, 1 + 50 * Len(pageLog))

\* the second page request is on the wire with start = 51 after a first
\* page that held a single identifier
C18_Witness ==
  /\ pc = "crawl_wait"
  /\ hpc = "header"
  /\ Len(pageLog) = 1
  /\ PageCount(pageLog[1]) = 1
  /\ path.limit = 50
  /\ path.start = 51

\* page requests made so far: the calls that returned and the one running
PageRequests == Len(pageLog) + (IF pc = "crawl_wait" THEN 1 ELSE 0)

\* C19: with a transport whose calls return, get_top_n_games ends (it
\* returns, or an exception leaves it); an iteration that goes round the
\* loop again has appended at least one identifier, and at most n page
\* requests are made, none when n = 0
C19_CrawlTerminates ==
  /\ [][(pc = "crawl_wait" /\ pc' = "crawl") => Len(game_ids') > Len(game_ids)]_vars
  /\ [](PageRequests <= n)
  /\ <>(pc \in {"returned", "crashed"})

\* the crawl returned after n = 2 page requests, every one answered with a
\* non-empty page and a next marker
C19_Witness ==
  /\ pc = "returned"
  /\ n = 2
  /\ Len(pageLog) = n
  /\ \A i \in 1..Len(pageLog) : ~PageStops(pageLog[i])

\* the "games" sequence of what one page request brought
GamesReceived(d) ==
  IF d.ok /\ Decode(d.text).ok /\ Decode(d.text).val.t = "page"
  THEN Decode(d.text).val.games ELSE <<>>

\* the "games" sequences of the pages received, in request order
RECURSIVE AllGames(_)
AllGames(log) ==
  IF log = <<>> THEN <<>> ELSE GamesReceived(Head(log)) \o AllGames(Tail(log))

\* C20: the list get_top_n_games builds and returns is a prefix of the
\* concatenation, in request order, of the "games" sequences received
C20_PrefixOfPages ==
  pc \in {"crawl", "crawl_wait", "returned"} =>
    /\ Len(game_ids) <= Len(AllGames(pageLog))
    /\ game_ids = SubSeq(AllGames(pageLog), 1, Len(game_ids))

\* two pages were received, the second repeating the identifier of the
\* first, and the returned list keeps the repetition and ends at the cap
C20_Witness ==
  /\ pc = "returned"
  /\ Len(pageLog) = 2
  /\ AllGames(pageLog) = <<1, 1, 2>>
  /\ game_ids = <<1, 1>>

====
